---- MODULE Spec2Model ----
(***************************************************************************)
(* media_tools: the `video concat` command.                                *)
(*                                                                         *)
(* src/src/bin/video.rs parses the command line and calls concat;          *)
(* src/src/lib.rs holds concat and read_dir.  One run of the program is    *)
(* main -> File::create(manifest) -> read_dir -> writeln! per file ->      *)
(* Command::status -> return, and runs follow each other on the same       *)
(* folder.                                                                 *)
(*                                                                         *)
(* Strings are sequences of ASCII codes, so that byte order, ASCII case    *)
(* folding, extensions and formatting are computed and not assumed.        *)
(* Directory enumeration yields every entry of the folder in an arbitrary  *)
(* order; an I/O fault on a single entry (entry.ok() = None) is outside    *)
(* the model.                                                              *)
(***************************************************************************)
EXTENDS Integers, Sequences, FiniteSets, TLC

\* Largest number of entries the folder holds before the first run.
MaxFiles == 2

----------------------------------------------------------------------------
\* Strings of the program and of the modelled environment (ASCII codes).

\* "/file_list.txt"
FileListSuffix == <<47, 102, 105, 108, 101, 95, 108, 105, 115, 116, 46, 116, 120, 116>>
\* "/output.mp4"
OutputSuffix == <<47, 111, 117, 116, 112, 117, 116, 46, 109, 112, 52>>
\* "file '"
LineHead == <<102, 105, 108, 101, 32, 39>>
\* "'\n"
LineTail == <<39, 10>>

\* --folder vid
Folder == <<118, 105, 100>>
\* --ext mp4 | txt
Exts == {<<109, 112, 52>>, <<116, 120, 116>>}
\* --prefix "" | clip_
Prefixes == {<< >>, <<99, 108, 105, 112, 95>>}
\* --output out.mp4 | vid/output.mp4
Outputs == {<<111, 117, 116, 46, 109, 112, 52>>, Folder \o OutputSuffix}

File(nm) == [name |-> nm, kind |-> "file"]
Dir(nm) == [name |-> nm, kind |-> "dir"]

\* What the folder may hold before the first run:
\*   a.mp4  B.MP4  c.txt  clip_1.mp4  .mp4 (hidden, no extension)  sub.mp4/ (a directory)
Pool ==
  { File(<<97, 46, 109, 112, 52>>),
    File(<<66, 46, 77, 80, 52>>),
    File(<<99, 46, 116, 120, 116>>),
    File(<<99, 108, 105, 112, 95, 49, 46, 109, 112, 52>>),
    File(<<46, 109, 112, 52>>),
    Dir(<<115, 117, 98, 46, 109, 112, 52>>) }

\* Wait statuses of the child: exit 0, exit 1, killed by signal 9.
WaitStatuses == {0, 256, 9}

----------------------------------------------------------------------------
\* Pure functions of lib.rs and of the std calls it makes.

to_ascii_lowercase(c) == IF c >= 65 /\ c <= 90 THEN c + 32 ELSE c

eq_ignore_ascii_case(a, b) ==
  /\ Len(a) = Len(b)
  /\ \A k \in 1..Len(a) : to_ascii_lowercase(a[k]) = to_ascii_lowercase(b[k])

None == [some |-> FALSE, val |-> << >>]
Some(v) == [some |-> TRUE, val |-> v]

SetMax(S) == CHOOSE m \in S : \A x \in S : x <= m

\* Path::extension: the part after the last '.', None when there is no '.'
\* or the only '.' is the first byte of the file name.
extension(nm) ==
  LET dots == {k \in 1..Len(nm) : nm[k] = 46}
  IN IF dots = {} THEN None
     ELSE IF SetMax(dots) = 1 THEN None
     ELSE Some(SubSeq(nm, SetMax(dots) + 1, Len(nm)))

\* Path::join / DirEntry::path
join(p, nm) ==
  IF p = << >> \/ p[Len(p)] = 47 THEN p \o nm ELSE p \o <<47>> \o nm

\* Ord for String: byte-wise lexicographic, a proper prefix is smaller.
StrLess(a, b) ==
  \E k \in 1..(Len(a) + 1) :
     /\ \A j \in 1..(k - 1) : j <= Len(b) /\ a[j] = b[j]
     /\ k <= Len(b)
     /\ (k <= Len(a) => a[k] < b[k])

RECURSIVE Insert(_, _)
Insert(x, s) ==
  IF s = << >> THEN <<x>>
  ELSE IF StrLess(s[1], x) THEN <<s[1]>> \o Insert(x, Tail(s))
  ELSE <<x>> \o s

RECURSIVE SortedOf(_)
SortedOf(s) == IF s = << >> THEN << >> ELSE Insert(s[1], SortedOf(Tail(s)))

NoSort(s) == s

\* paths.sort_unstable()
sort_unstable(s) == SortedOf(s)

KeepAnyKind(e, ext) ==
  extension(e.name).some /\ eq_ignore_ascii_case(extension(e.name).val, ext)

\* path.is_file() && path.extension().is_some_and(|e| e.eq_ignore_ascii_case(ext))
Keep(e, ext) ==
  /\ e.kind = "file"
  /\ extension(e.name).some
  /\ eq_ignore_ascii_case(extension(e.name).val, ext)

\* entries.filter_map(..).collect(): the kept entries' paths, in enumeration order
RECURSIVE filter_map(_, _, _)
filter_map(order, p, ext) ==
  IF order = << >> THEN << >>
  ELSE (IF Keep(order[1], ext) THEN <<join(p, order[1].name)>> ELSE << >>)
       \o filter_map(Tail(order), p, ext)

\* The orders in which the file system may enumerate a set of entries.
RECURSIVE Enumerations(_)
Enumerations(S) ==
  IF S = {} THEN {<< >>}
  ELSE UNION {{<<x>> \o o : o \in Enumerations(S \ {x})} : x \in S}

\* writeln!(f, "file '{}'", file): the three pieces written in turn
Pieces(file) == <<LineHead, file, LineTail>>
Line(file) == LineHead \o file \o LineTail

RECURSIVE Concat(_, _)
Concat(ps, k) == IF k = 0 THEN << >> ELSE Concat(ps, k - 1) \o ps[k]

SuccessNonZero(st) == st # 0

\* ExitStatus::success
success(st) == st = 0

\* Outcomes of Command::status
NotSpawned == [tag |-> "none", wait |-> 0]
SpawnFailed == [tag |-> "spawn_failed", wait |-> 0]
Waited(w) == [tag |-> "waited", wait |-> w]

Ok(b) == [tag |-> "Ok", val |-> b]
Err(e) == [tag |-> "Err", val |-> e]
NoResult == [tag |-> "None", val |-> FALSE]

\* The entry an external write to `path` creates in Folder (none outside it).
CreatedBy(path) ==
  LET d == Folder \o <<47>>
  IN IF Len(path) > Len(d) /\ SubSeq(path, 1, Len(d)) = d
     THEN {File(SubSeq(path, Len(d) + 1, Len(path)))}
     ELSE {}

----------------------------------------------------------------------------
VARIABLES
  exists,       \* the folder exists
  readable,     \* the folder can be opened for listing
  writable,     \* files can be created in the folder
  entries,      \* the folder's direct entries
  manifest,     \* bytes of <folder>/file_list.txt (empty when absent)
  args,         \* the command line of the current run
  pc,           \* position of the current run
  tmp_path,     \* concat's local
  output_path,  \* concat's local
  paths,        \* the Vec read_dir returned
  n,            \* lines written so far by the for loop
  result,       \* what concat returned to main
  spawns,       \* Command::status calls of the current run
  argv,         \* argument vector of the spawned tool
  status,       \* what Command::status met: not called, spawn failed, or a wait status
  start,        \* history: the folder's content when the run began
  prev          \* history: the previous run, when it wrote its whole manifest

vars == <<exists, readable, writable, entries, manifest, args, pc, tmp_path,
          output_path, paths, n, result, spawns, argv, status, start, prev>>

NoArgs == [folder |-> << >>, prefix |-> << >>, ext |-> << >>, output |-> << >>]
NoRun == [ran |-> FALSE, entries |-> {}, args |-> NoArgs, manifest |-> << >>]

Init ==
  /\ exists \in BOOLEAN
  /\ readable \in BOOLEAN
  /\ writable \in BOOLEAN
  /\ (~exists => ~readable /\ ~writable)
  /\ entries \in {S \in SUBSET Pool : Cardinality(S) <= MaxFiles}
  /\ (~exists => entries = {})
  /\ manifest = << >>
  /\ args = NoArgs
  /\ pc = "main"
  /\ tmp_path = << >>
  /\ output_path = << >>
  /\ paths = << >>
  /\ n = 0
  /\ result = NoResult
  /\ spawns = 0
  /\ argv = << >>
  /\ status = NotSpawned
  /\ start = [entries |-> {}, manifest |-> << >>]
  /\ prev = NoRun

\* video.rs main: the parsed arguments are handed to concat.  lib.rs's concat
\* has the parameters (path, ext) only: prefix and output go nowhere.
main ==
  /\ pc = "main"
  /\ \E x \in Exts, p \in Prefixes, o \in Outputs :
        args' = [folder |-> Folder, prefix |-> p, ext |-> x, output |-> o]
  /\ start' = [entries |-> entries, manifest |-> manifest]
  /\ pc' = "create"
  /\ UNCHANGED <<exists, readable, writable, entries, manifest, tmp_path,
                 output_path, paths, n, result, spawns, argv, status, prev>>

CreateKeepsContent == manifest

\* File::create truncates an existing file
Truncated == << >>

\* concat, lines 180-182
Create ==
  /\ pc = "create"
  /\ tmp_path' = args.folder \o FileListSuffix
  /\ output_path' = args.folder \o OutputSuffix
  /\ IF exists /\ writable
     THEN /\ entries' = entries \cup CreatedBy(args.folder \o FileListSuffix)
          /\ manifest' = Truncated
          /\ pc' = "read_dir"
          /\ result' = result
     ELSE /\ result' = Err("CreateOutputError")
          /\ pc' = "done"
          /\ UNCHANGED <<entries, manifest>>
  /\ UNCHANGED <<exists, readable, writable, args, paths, n, spawns, argv,
                 status, start, prev>>

\* read_dir(path, ext), called at line 184
ReadDir ==
  /\ pc = "read_dir"
  /\ IF ~exists
     THEN /\ result' = Err("FolderNotFound")
          /\ pc' = "done"
          /\ paths' = paths
     ELSE IF ~readable
     THEN /\ result' = Err("AccessDenied")
          /\ pc' = "done"
          /\ paths' = paths
     ELSE /\ \E order \in Enumerations(entries) :
               paths' = sort_unstable(filter_map(order, args.folder, args.ext))
          /\ pc' = "write"
          /\ result' = result
  /\ UNCHANGED <<exists, readable, writable, entries, manifest, args, tmp_path,
                 output_path, n, spawns, argv, status, start, prev>>

WriteFailureIgnored ==
  /\ pc = "write"
  /\ n < Len(paths)
  /\ \/ /\ manifest' = manifest \o Line(paths[n + 1])
        /\ n' = n + 1
     \/ /\ \E k \in 0..2 : manifest' = manifest \o Concat(Pieces(paths[n + 1]), k)
        /\ n' = n + 1
  /\ UNCHANGED <<pc, result>>
  /\ UNCHANGED <<exists, readable, writable, entries, args, tmp_path,
                 output_path, paths, spawns, argv, status, start, prev>>

\* one iteration of the for loop, line 185
WriteLine ==
  /\ pc = "write"
  /\ n < Len(paths)
  /\ \/ /\ manifest' = manifest \o Line(paths[n + 1])
        /\ n' = n + 1
        /\ UNCHANGED <<pc, result>>
     \/ /\ \E k \in 0..2 : manifest' = manifest \o Concat(Pieces(paths[n + 1]), k)
        /\ result' = Err("WriteFileError")
        /\ pc' = "done"
        /\ n' = n
  /\ UNCHANGED <<exists, readable, writable, entries, args, tmp_path,
                 output_path, paths, spawns, argv, status, start, prev>>

\* Command::new("ffmpeg").args([..]).status() and the return, lines 189-200
Spawn ==
  /\ pc = "write"
  /\ n = Len(paths)
  /\ spawns' = spawns + 1
  /\ argv' = <<"-f", "concat", "-safe", "0", "-i", tmp_path, "-c", "copy", output_path>>
  /\ \E st \in {SpawnFailed} \cup {Waited(w) : w \in WaitStatuses} :
        /\ status' = st
        /\ IF st.tag = "spawn_failed"
           THEN /\ result' = Err("CommandError")
                /\ entries' = entries
           ELSE /\ result' = Ok(success(st.wait))
                /\ \/ entries' = entries \cup CreatedBy(output_path)
                   \/ st.wait # 0 /\ entries' = entries
  /\ pc' = "done"
  /\ UNCHANGED <<exists, readable, writable, manifest, args, tmp_path,
                 output_path, paths, n, start, prev>>

\* main prints an Err and the process ends; the next run starts afresh
Exit ==
  /\ pc = "done"
  /\ prev' = IF spawns = 1
             THEN [ran |-> TRUE, entries |-> start.entries \cup CreatedBy(tmp_path),
                   args |-> args, manifest |-> manifest]
             ELSE NoRun
  /\ pc' = "main"
  /\ args' = NoArgs
  /\ tmp_path' = << >>
  /\ output_path' = << >>
  /\ paths' = << >>
  /\ n' = 0
  /\ result' = NoResult
  /\ spawns' = 0
  /\ argv' = << >>
  /\ status' = NotSpawned
  /\ start' = [entries |-> {}, manifest |-> << >>]
  /\ UNCHANGED <<exists, readable, writable, entries, manifest>>

Next == main \/ Create \/ ReadDir \/ WriteLine \/ Spawn \/ Exit

Spec == Init /\ [][Next]_vars

----------------------------------------------------------------------------
\* Vocabulary of the properties.

IsErr(r, e) == r.tag = "Err" /\ r.val = e
IsOk(r, b) == r.tag = "Ok" /\ r.val = b

Range(s) == {s[k] : k \in 1..Len(s)}

StartsWith(s, p) == Len(p) <= Len(s) /\ SubSeq(s, 1, Len(p)) = p

\* Two bytes that are equal, or the upper and lower case of one ASCII letter.
SameLetter(x, y) ==
  \/ x = y
  \/ x \in 65..90 /\ y = x + 32
  \/ y \in 65..90 /\ x = y + 32

\* nm is <stem>.<e> with a non-empty stem, no '.' in e, and e is ext up to case.
HasExtension(nm, ext) ==
  \E k \in 2..Len(nm) :
     /\ nm[k] = 46
     /\ \A j \in (k + 1)..Len(nm) : nm[j] # 46
     /\ Len(nm) - k = Len(ext)
     /\ \A j \in 1..Len(ext) : SameLetter(nm[k + j], ext[j])

RECURSIVE ManifestOf(_)
ManifestOf(list) ==
  IF list = << >> THEN << >>
  ELSE LineHead \o list[1] \o LineTail \o ManifestOf(Tail(list))

\* m holds the line  file '<p>'\n
Lists(m, p) ==
  \E k \in 1..Len(m) :
     /\ k + Len(Line(p)) - 1 <= Len(m)
     /\ SubSeq(m, k, k + Len(Line(p)) - 1) = Line(p)

\* The folder as read_dir saw it in this run.
ScannedEntries == start.entries \cup CreatedBy(tmp_path)

\* Every line of this run's manifest has been written.
AllWritten == (pc = "write" /\ n = Len(paths)) \/ (pc = "done" /\ spawns = 1)

ScanError == IsErr(result, "FolderNotFound") \/ IsErr(result, "AccessDenied")

----------------------------------------------------------------------------
C2_PrefixFilter ==
  pc = "write" =>
    /\ \A e \in entries :
          join(args.folder, e.name) \in Range(paths) => StartsWith(e.name, args.prefix)
    /\ ((\A e \in entries : ~StartsWith(e.name, args.prefix)) => paths = << >>)

\* C3: once every write of a run has succeeded the manifest is exactly the
\* lines  file '<path>'\n  of the scanned list, in order, and nothing else.
C3_ManifestExact == (pc = "done" /\ spawns = 1) => manifest = ManifestOf(paths)

\* A run that found a manifest of an earlier run and wrote a different,
\* two-line one.
C3_Witness ==
  /\ pc = "done"
  /\ spawns = 1
  /\ Len(paths) = 2
  /\ start.manifest # << >>
  /\ manifest # start.manifest

\* C4: a run on a folder that does not exist ends with FolderNotFound, a run
\* on a folder that exists and cannot be listed ends with AccessDenied.
C4_ScanErrors ==
  pc = "done" =>
    /\ (~exists => IsErr(result, "FolderNotFound"))
    /\ (exists /\ ~readable => IsErr(result, "AccessDenied"))

\* C5: after the scan and the writes succeeded, concat returns
\* Err(CommandError) exactly when the tool could not be spawned, Ok(true)
\* exactly when it ran and its status is zero, Ok(false) exactly when it ran
\* and its status is not zero.
C5_ResultBySubprocess ==
  (pc = "done" /\ spawns = 1) =>
    /\ (IsErr(result, "CommandError") <=> status.tag = "spawn_failed")
    /\ (IsOk(result, TRUE) <=> (status.tag = "waited" /\ status.wait = 0))
    /\ (IsOk(result, FALSE) <=> (status.tag = "waited" /\ status.wait # 0))
    /\ (IsErr(result, "CommandError") \/ IsOk(result, TRUE) \/ IsOk(result, FALSE))

\* The tool ran, ended with a non-zero status, and concat returned Ok(false).
C5_Witness ==
  /\ pc = "done"
  /\ spawns = 1
  /\ status.tag = "waited"
  /\ status.wait = 256
  /\ IsOk(result, FALSE)

\* C6: the tool's arguments are  -f concat -safe 0 -i <manifest of this run>
\* -c copy <the output path given on the command line>.
C6_Argv ==
  spawns = 1 =>
    argv = <<"-f", "concat", "-safe", "0", "-i", tmp_path, "-c", "copy", args.output>>

\* C7: the tool is spawned at most once in a run and only when every line of
\* the manifest is written; a run that ends with a scan, create or write
\* error has not spawned it.
C7_SpawnOnceAfterManifest ==
  /\ spawns <= 1
  /\ (spawns = 1 => n = Len(paths) /\ manifest = ManifestOf(paths))
  /\ ((pc = "done" /\ (ScanError \/ IsErr(result, "CreateOutputError")
                        \/ IsErr(result, "WriteFileError")))
        => spawns = 0 /\ status = NotSpawned)

\* A run whose second line could not be written ended without a spawn.
C7_Witness ==
  /\ pc = "done"
  /\ IsErr(result, "WriteFileError")
  /\ n = 1
  /\ spawns = 0

\* C8: a run that scans the same folder content with the same folder, prefix
\* and extension as the run before it writes the same manifest, byte for byte.
C8_Idempotent ==
  ( /\ AllWritten
    /\ prev.ran
    /\ prev.entries = ScannedEntries
    /\ prev.args.folder = args.folder
    /\ prev.args.prefix = args.prefix
    /\ prev.args.ext = args.ext )
  => manifest = prev.manifest

\* The second of two such runs, with at least two files to order.
C8_Witness ==
  /\ pc = "done"
  /\ spawns = 1
  /\ prev.ran
  /\ prev.entries = ScannedEntries
  /\ prev.args.folder = args.folder
  /\ prev.args.prefix = args.prefix
  /\ prev.args.ext = args.ext
  /\ Len(paths) >= 2
  /\ manifest = prev.manifest

\* C9: a run that ends with a scan error has left the folder and the manifest
\* as they were when it began.
C9_ScanErrorLeavesFs ==
  (pc = "done" /\ ScanError) =>
    /\ entries = start.entries
    /\ manifest = start.manifest

\* C10: the manifest never lists the manifest itself nor the output file of
\* an earlier run.
C10_NoOwnArtifacts ==
  /\ ~Lists(manifest, Folder \o FileListSuffix)
  /\ ~Lists(manifest, Folder \o OutputSuffix)

====
